---- MODULE Spec2Model ----
(***************************************************************************)
(* A model of pyscf/gw/gw_slow.py: the construction of the GW              *)
(* intermediates (IMDS.__init__) and the root-finding driver (kernel).     *)
(*                                                                         *)
(* Energies live on the integer grid -W..W; one grid unit is the           *)
(* resolution of the root finders (tol).  scipy's newton (secant) and      *)
(* bisect are modelled by the calls they make to the logged residual       *)
(* function: newton evaluates its two starting points and then any point   *)
(* of the grid, bisect is the bisection loop itself.                       *)
(***************************************************************************)
EXTENDS Integers, Sequences, FiniteSets, TLC

\* ---------------------------------------------------------------- bounds
\* half-width of the energy grid; bisect's fixed interval [-100, 100] is [-W, W]
W == 2
\* the iteration budget of both root finders (maxiter=100 in the source)
MaxIter == 2
\* number of molecular orbitals of the fixture (eri.nmo)
NMO == 2
\* largest number of tensor slots of a kernel() call that is explored
MaxSlots == 2
\* resolution of the grid, standing for tol
Tol == 1

Omega == (-W)..W

VARIABLES
    \* ---- arguments of kernel()
    method, linearized, orbs_arg, imds,
    \* ---- locals of kernel()
    pc, orbs, gw_energies, i_p, p, debug, bis,
    \* ---- what leaves kernel()
    exc, log, plotted, ret,
    \* ---- IMDS.__init__ and the mean-field object it borrows
    ipc, mo_occ, exxdiv, has_exxdiv, space, backup, env_old, mo_occ0, exxdiv0, iexc

kvars == <<method, linearized, orbs_arg, imds, pc, orbs, gw_energies, i_p, p,
           debug, bis, exc, log, plotted, ret>>
ivars == <<ipc, mo_occ, exxdiv, has_exxdiv, space, backup, env_old, mo_occ0,
           exxdiv0, iexc>>
vars == <<kvars, ivars>>

\* ---------------------------------------------------------------- helpers
Range(n) == [k \in 1..n |-> k - 1]

RECURSIVE SeqMin(_)
SeqMin(s) ==
    IF Len(s) = 1 THEN s[1]
    ELSE LET m == SeqMin(Tail(s)) IN IF s[1] < m THEN s[1] ELSE m

RECURSIVE SeqMax(_)
SeqMax(s) ==
    IF Len(s) = 1 THEN s[1]
    ELSE LET m == SeqMax(Tail(s)) IN IF s[1] > m THEN s[1] ELSE m

\* an element of a python list: a bare integer or a sequence of integers
IntItem(n) == [t |-> "int", n |-> n, s |-> <<>>]
SeqItem(s) == [t |-> "seq", n |-> 0, s |-> s]

\* ---------------------------------------------------------------- fixture
\* The orbitals of the fixture come in three kinds, by the label of p (the
\* molecular container and the k-point container hold different orbitals):
\*   kind 0: the residual is omega + 1, with its root on the grid;
\*   kind 1: a pole of the self-energy between 0 and 1: the residual changes
\*           sign there and is zero nowhere;
\*   kind 2: the residual is positive on the whole grid.
Kind(q) == (q[1] + 2 * (Len(q) - 1)) % 3

\* eri.mo_energy[p]
mo_energy(q) == CASE Kind(q) = 0 -> 0 [] Kind(q) = 1 -> 1 [] OTHER -> -1

\* line 176
initial_guess(q) == mo_energy(q)

\* lines 134-145: moe + vk - v_mf
get_rhs(q) == mo_energy(q) + (IF Kind(q) = 0 THEN -1 ELSE 0)

\* lines 167-173: the real part of the self-energy
get_sigma_element(omega, q) ==
    CASE Kind(q) = 0 -> 0
      [] Kind(q) = 1 -> (IF omega <= 0 THEN 1 ELSE -1)
      [] OTHER -> -(W + 2)

\* lines 83-88: omega - sigma.real - rhs
quasiparticle_eq(q, omega) == omega - get_sigma_element(omega, q) - get_rhs(q)

\* the molecular container and a two-index (k-point) container, and two
\* containers that break the entire_space contract
MolIMDS == [orb_dims |-> 1, entire_space |-> [is_list |-> TRUE, v |-> <<SeqItem(Range(NMO))>>]]
KIMDS == [orb_dims |-> 2, entire_space |-> [is_list |-> TRUE, v |-> <<SeqItem(Range(NMO)), SeqItem(<<0>>)>>]]
ArrayIMDS == [orb_dims |-> 1, entire_space |-> [is_list |-> FALSE, v |-> <<SeqItem(Range(NMO))>>]]
ShortIMDS == [orb_dims |-> 2, entire_space |-> [is_list |-> TRUE, v |-> <<SeqItem(Range(NMO))>>]]
IMDSVariants == {MolIMDS, KIMDS, ArrayIMDS, ShortIMDS}

Methods == {"newton", "bisect", "fallback", "secant"}

NoneArg == [kind |-> "none", v |-> <<>>]
ArrayArg(s) == [kind |-> "array", v |-> <<SeqItem(s)>>]
ListArg(l) == [kind |-> "list", v |-> l]
OrbsArgs ==
    { NoneArg, ArrayArg(<<>>), ArrayArg(<<0>>), ArrayArg(<<1, 1>>),
      ListArg(<<>>), ListArg(<<IntItem(0)>>), ListArg(<<SeqItem(<<0>>)>>),
      ListArg(<<SeqItem(<<1>>), SeqItem(<<0>>)>>) }

\* ---------------------------------------------------------------- LoggingFunction
NoDebug == [live |-> FALSE, x |-> <<>>, y |-> <<>>]

LoggingFunction == [live |-> TRUE, x |-> <<>>, y |-> <<>>]

\* a faulty variant of __call__: the pair is put in front of the history
CallPrepend(d, q, x) ==
    [d EXCEPT !.x = <<x>> \o @, !.y = <<quasiparticle_eq(q, x)>> \o @]

\* LoggingFunction.__call__: evaluate, then append x and y
Call(d, q, x) ==
    [d EXCEPT !.x = Append(@, x), !.y = Append(@, quasiparticle_eq(q, x))]

Pairs(d) == [k \in 1..Len(d.x) |-> <<d.x[k], d.y[k]>>]

\* plot_call_history: draws every recorded point when there is more than one
plot_call_history(d) == IF Len(d.x) > 1 THEN Pairs(d) ELSE <<>>

\* ---------------------------------------------------------------- kernel: arguments
\* a faulty variant of the method check: every string is let through
ValidMethodAny(m) == TRUE

\* line 242: method in ('newton', 'bisect', 'fallback')
ValidMethod(m) == m \in {"newton", "bisect", "fallback"}

\* line 247: isinstance(_orbs, list) and len(_orbs) == imds.orb_dims
ValidEntireSpace(im) ==
    im.entire_space.is_list /\ Len(im.entire_space.v) = im.orb_dims

\* python's s[:-n]; with n = 0 this is s[:0], the empty list
PySliceNeg(s, n) ==
    IF n = 0 \/ n >= Len(s) THEN <<>> ELSE SubSeq(s, 1, Len(s) - n)

\* lines 254-259: the default value, then "make sure it is a list"
AsList(arg, im) == IF arg.kind = "none" THEN im.entire_space.v ELSE arg.v

\* lines 262-263: add missing dimensions
AddMissing(o, im) ==
    IF Len(o) < im.orb_dims THEN PySliceNeg(im.entire_space.v, Len(o)) \o o ELSE o

Normalise(arg, im) == AddMissing(AsList(arg, im), im)

\* line 265: len(i) for i in orbs is a TypeError when i is an integer
ShapeOK(o) == \A d \in 1..Len(o) : o[d].t = "seq"

Shape(o) == [d \in 1..Len(o) |-> Len(o[d].s)]

RECURSIVE Size(_)
Size(sh) == IF sh = <<>> THEN 1 ELSE sh[1] * Size(Tail(sh))

\* product(*(arange(i) for i in shape)): the index tuples in row-major order
RECURSIVE IndexSeq(_)
IndexSeq(sh) ==
    IF sh = <<>> THEN << <<>> >>
    ELSE LET rest == IndexSeq(Tail(sh))
             n == Len(rest)
         IN [k \in 1..(sh[1] * n) |-> <<(k - 1) \div n>> \o rest[((k - 1) % n) + 1]]

NoTensor == [made |-> 0, slots |-> <<>>]

\* line 266: numpy.zeros(shape); w counts the assignments to a slot
Zeros(e, sh) == [made |-> e.made + 1, slots |-> [k \in 1..Size(sh) |-> [v |-> 0, w |-> 0]]]

\* a faulty variant of the assignment: every root lands in the first slot
StoreFirst(e, k, v) == [e EXCEPT !.slots[1] = [v |-> v, w |-> @.w + 1]]

\* gw_energies[i_p] = root
Store(e, k, v) == [e EXCEPT !.slots[k] = [v |-> v, w |-> @.w + 1]]

\* line 269: p = tuple(i[j] for i, j in zip(orbs, i_p))
OrbitalTuple(o, idx) == [d \in 1..Len(o) |-> o[d].s[idx[d] + 1]]

NoBis == [a |-> 0, b |-> 0, xa |-> 0, fa |-> 0, dm |-> 0, i |-> 0]

Bracket(a, b) == [a |-> a, b |-> b, xa |-> a, fa |-> 0, dm |-> 0, i |-> 0]

\* a faulty variant of the fallback bracket: the fixed interval of method "bisect"
FallbackBracketFixed(d) == <<-W, W>>

\* a faulty variant of the fallback bracket: the first and the last evaluation
FallbackBracketEnds(d) == <<d.x[1], d.x[Len(d.x)]>>

\* lines 306, 308: min(debug.x), max(debug.x)
FallbackBracket(d) == <<SeqMin(d.x), SeqMax(d.x)>>

NoRet == [given |-> FALSE, value |-> <<>>]

NumSlots(arg, im) ==
    IF ValidEntireSpace(im) /\ ShapeOK(Normalise(arg, im))
    THEN Size(Shape(Normalise(arg, im))) ELSE 0

\* ---------------------------------------------------------------- kernel: actions
Raise(e) ==
    /\ pc' = "raised"
    /\ exc' = Append(exc, e)

\* lines 242-243
CheckMethod ==
    /\ pc = "check_method"
    /\ IF ValidMethod(method)
       THEN pc' = "check_space" /\ exc' = exc
       ELSE Raise("ValueError")
    /\ UNCHANGED <<method, linearized, orbs_arg, imds, orbs, gw_energies, i_p, p,
                   debug, bis, log, plotted, ret, ivars>>

\* lines 246-251
CheckEntireSpace ==
    /\ pc = "check_space"
    /\ IF ValidEntireSpace(imds)
       THEN pc' = "prepare" /\ exc' = exc
       ELSE Raise("RuntimeError:entire_space")
    /\ UNCHANGED <<method, linearized, orbs_arg, imds, orbs, gw_energies, i_p, p,
                   debug, bis, log, plotted, ret, ivars>>

\* lines 253-266
Prepare ==
    /\ pc = "prepare"
    /\ orbs' = Normalise(orbs_arg, imds)
    /\ IF ShapeOK(orbs')
       THEN /\ gw_energies' = Zeros(gw_energies, Shape(orbs'))
            /\ i_p' = 1
            /\ pc' = "loop"
            /\ exc' = exc
       ELSE /\ Raise("TypeError")
            /\ UNCHANGED <<gw_energies, i_p>>
    /\ UNCHANGED <<method, linearized, orbs_arg, imds, p, debug, bis, log, plotted,
                   ret, ivars>>

\* lines 268-285 and the dispatch on method of lines 287, 298, 301
ForOrbital ==
    /\ pc = "loop"
    /\ i_p <= Len(gw_energies.slots)
    /\ LET q0 == OrbitalTuple(orbs, IndexSeq(Shape(orbs))[i_p])
           q == IF imds.orb_dims = 1 THEN SubSeq(q0, 1, 1) ELSE q0
       IN IF imds.orb_dims = 1 /\ q0 = <<>>
          THEN Raise("IndexError") /\ UNCHANGED <<p, debug, bis, i_p>>
          ELSE IF linearized
          THEN Raise("NotImplementedError") /\ p' = q /\ UNCHANGED <<debug, bis, i_p>>
          ELSE IF q = <<>>
          THEN Raise("LookupError:get_rhs") /\ p' = q /\ UNCHANGED <<debug, bis, i_p>>
          ELSE /\ p' = q
               /\ debug' = LoggingFunction
               /\ exc' = exc
               /\ IF method \in {"newton", "fallback"}
                  THEN pc' = "newton" /\ UNCHANGED <<bis, i_p>>
                  ELSE IF method = "bisect"
                  THEN pc' = "bisect_fa" /\ bis' = Bracket(-W, W) /\ i_p' = i_p
                  ELSE pc' = "loop" /\ i_p' = i_p + 1 /\ bis' = bis
    /\ UNCHANGED <<method, linearized, orbs_arg, imds, orbs, gw_energies, log,
                   plotted, ret, ivars>>

\* line 310
Return ==
    /\ pc = "loop"
    /\ i_p > Len(gw_energies.slots)
    /\ ret' = [given |-> TRUE, value |-> gw_energies.slots]
    /\ pc' = "returned"
    /\ UNCHANGED <<method, linearized, orbs_arg, imds, orbs, gw_energies, i_p, p,
                   debug, bis, exc, log, plotted, ivars>>

\* gw_energies[i_p] = <root>, then the next index tuple
Assign(v) ==
    /\ gw_energies' = Store(gw_energies, i_p, v)
    /\ i_p' = i_p + 1
    /\ pc' = "loop"

\* newton(debug, imds.initial_guess(p), ...): the points the secant iteration evaluates
NewtonPoints(d, q) ==
    IF Len(d.x) = 0 THEN {initial_guess(q)}
    ELSE IF Len(d.x) = 1
    THEN {IF d.x[1] >= 0 THEN d.x[1] + 1 ELSE d.x[1] - 1}
    ELSE Omega

NewtonEval ==
    /\ pc = "newton"
    /\ Len(debug.x) < MaxIter + 2
    /\ \E x \in NewtonPoints(debug, p) : debug' = Call(debug, p, x)
    /\ UNCHANGED <<method, linearized, orbs_arg, imds, pc, orbs, gw_energies, i_p, p,
                   bis, exc, log, plotted, ret, ivars>>

\* lines 289, 303: newton returns (two iterates within tol of each other)
NewtonConverge ==
    /\ pc = "newton"
    /\ Len(debug.x) >= 2
    /\ Len(debug.x) < MaxIter + 2
    /\ Assign(debug.x[Len(debug.x)])
    /\ UNCHANGED <<method, linearized, orbs_arg, imds, orbs, p, debug, bis, exc, log,
                   plotted, ret, ivars>>

\* lines 290-296: the handler of method "newton"; an exception object has the
\* attribute message under python 2 and has none under python 3
NewtonFailNewton ==
    /\ pc = "newton"
    /\ method = "newton"
    /\ Len(debug.x) = MaxIter + 2
    /\ \E has_message \in BOOLEAN :
         IF has_message
         THEN /\ plotted' = plot_call_history(debug)
              /\ pc' = "raised"
              /\ exc' = Append(exc, "RuntimeError:newton")
         ELSE /\ plotted' = plotted
              /\ pc' = "raised"
              /\ exc' = exc \o <<"RuntimeError:newton", "AttributeError">>
    /\ UNCHANGED <<method, linearized, orbs_arg, imds, orbs, gw_energies, i_p, p,
                   debug, bis, log, ret, ivars>>

\* lines 304-308: the handler of method "fallback"
NewtonFailFallback ==
    /\ pc = "newton"
    /\ method = "fallback"
    /\ Len(debug.x) = MaxIter + 2
    /\ log' = Append(log, [slot |-> i_p, bounds |-> FallbackBracket(debug)])
    /\ bis' = Bracket(FallbackBracket(debug)[1], FallbackBracket(debug)[2])
    /\ pc' = "bisect_fa"
    /\ UNCHANGED <<method, linearized, orbs_arg, imds, orbs, gw_energies, i_p, p,
                   debug, exc, plotted, ret, ivars>>

\* bisect(debug, a, b, ...): f(a)
BisectFa ==
    /\ pc = "bisect_fa"
    /\ debug' = Call(debug, p, bis.a)
    /\ bis' = [bis EXCEPT !.fa = quasiparticle_eq(p, bis.a)]
    /\ pc' = "bisect_fb"
    /\ UNCHANGED <<method, linearized, orbs_arg, imds, orbs, gw_energies, i_p, p,
                   exc, log, plotted, ret, ivars>>

\* bisect: f(b), the sign test and the roots at the ends
BisectFb ==
    /\ pc = "bisect_fb"
    /\ debug' = Call(debug, p, bis.b)
    /\ LET fb == quasiparticle_eq(p, bis.b)
       IN IF bis.fa * fb > 0
          THEN Raise("ValueError:bisect") /\ UNCHANGED <<gw_energies, i_p, bis>>
          ELSE IF bis.fa = 0
          THEN Assign(bis.a) /\ UNCHANGED <<exc, bis>>
          ELSE IF fb = 0
          THEN Assign(bis.b) /\ UNCHANGED <<exc, bis>>
          ELSE /\ pc' = "bisect_iter"
               /\ bis' = [bis EXCEPT !.dm = bis.b - bis.a]
               /\ UNCHANGED <<exc, gw_energies, i_p>>
    /\ UNCHANGED <<method, linearized, orbs_arg, imds, orbs, p, log, plotted, ret, ivars>>

\* bisect: one halving step
BisectIter ==
    /\ pc = "bisect_iter"
    /\ bis.i < MaxIter
    /\ LET dm == bis.dm \div 2
           xm == bis.xa + dm
           fm == quasiparticle_eq(p, xm)
       IN /\ debug' = Call(debug, p, xm)
          /\ bis' = [bis EXCEPT !.dm = dm, !.i = @ + 1,
                                !.xa = IF fm * bis.fa >= 0 THEN xm ELSE @]
          /\ IF fm = 0 \/ dm < Tol
             THEN Assign(xm)
             ELSE UNCHANGED <<pc, gw_energies, i_p>>
    /\ UNCHANGED <<method, linearized, orbs_arg, imds, orbs, p, exc, log, plotted,
                   ret, ivars>>

\* bisect: the iteration budget is spent
BisectFail ==
    /\ pc = "bisect_iter"
    /\ bis.i = MaxIter
    /\ Raise("RuntimeError:bisect")
    /\ UNCHANGED <<method, linearized, orbs_arg, imds, orbs, gw_energies, i_p, p,
                   debug, bis, log, plotted, ret, ivars>>

\* ---------------------------------------------------------------- IMDS.__init__
Occupations == {0, 2}

\* line 114: backup = self.mf.mo_occ.copy()
BackupOcc ==
    /\ ipc = "backup"
    /\ backup' = mo_occ
    /\ ipc' = "mask"
    /\ UNCHANGED <<mo_occ, exxdiv, has_exxdiv, space, env_old, mo_occ0, exxdiv0, iexc, kvars>>

\* line 115: self.mf.mo_occ[~self.eri.space] = 0
Masked(occ, sp) == [k \in 1..Len(occ) |-> IF sp[k] THEN occ[k] ELSE 0]

\* lines 115-116
MaskOcc ==
    /\ ipc = "mask"
    /\ mo_occ' = Masked(mo_occ, space)
    /\ ipc' = IF has_exxdiv THEN "enter" ELSE "veff"
    /\ UNCHANGED <<exxdiv, has_exxdiv, space, backup, env_old, mo_occ0, exxdiv0, iexc, kvars>>

\* line 117: with temporary_env(self.mf, exxdiv=None)
EnterEnv ==
    /\ ipc = "enter"
    /\ env_old' = exxdiv
    /\ exxdiv' = "None"
    /\ ipc' = "veff"
    /\ UNCHANGED <<mo_occ, has_exxdiv, space, backup, mo_occ0, exxdiv0, iexc, kvars>>

\* where an exception of the mean-field object goes: through the exit of
\* temporary_env when one is open, else straight out of __init__
AfterRaise == IF has_exxdiv THEN "exit" ELSE "raised"

\* lines 118, 120: self.mf.get_veff(), which may raise
GetVeff ==
    /\ ipc = "veff"
    /\ \E ok \in BOOLEAN :
         IF ok THEN ipc' = "j" /\ iexc' = iexc
         ELSE ipc' = AfterRaise /\ iexc' = Append(iexc, "get_veff")
    /\ UNCHANGED <<mo_occ, exxdiv, has_exxdiv, space, backup, env_old, mo_occ0, exxdiv0, kvars>>

\* lines 118, 120: self.mf.get_j(), which may raise
GetJ ==
    /\ ipc = "j"
    /\ \E ok \in BOOLEAN :
         IF ok THEN ipc' = (IF has_exxdiv THEN "exit" ELSE "restore") /\ iexc' = iexc
         ELSE ipc' = AfterRaise /\ iexc' = Append(iexc, "get_j")
    /\ UNCHANGED <<mo_occ, exxdiv, has_exxdiv, space, backup, env_old, mo_occ0, exxdiv0, kvars>>

\* the exit of temporary_env: the old attribute is put back, on an exception too
ExitEnv ==
    /\ ipc = "exit"
    /\ exxdiv' = env_old
    /\ ipc' = IF iexc = <<>> THEN "restore" ELSE "raised"
    /\ UNCHANGED <<mo_occ, has_exxdiv, space, backup, env_old, mo_occ0, exxdiv0, iexc, kvars>>

\* line 121: self.mf.mo_occ = backup
RestoreOcc ==
    /\ ipc = "restore"
    /\ mo_occ' = backup
    /\ ipc' = "done"
    /\ UNCHANGED <<exxdiv, has_exxdiv, space, backup, env_old, mo_occ0, exxdiv0, iexc, kvars>>

\* ---------------------------------------------------------------- specification
InitIdleIMDS ==
    /\ ipc = "idle"
    /\ mo_occ = <<>>
    /\ exxdiv = "none"
    /\ has_exxdiv = FALSE
    /\ space = <<>>
    /\ backup = <<>>
    /\ env_old = "none"
    /\ mo_occ0 = <<>>
    /\ exxdiv0 = "none"
    /\ iexc = <<>>

Init ==
    /\ method \in Methods
    /\ linearized \in BOOLEAN
    /\ imds \in IMDSVariants
    /\ orbs_arg \in {a \in OrbsArgs : NumSlots(a, imds) <= MaxSlots}
    /\ pc = "check_method"
    /\ orbs = <<>>
    /\ gw_energies = NoTensor
    /\ i_p = 0
    /\ p = <<>>
    /\ debug = NoDebug
    /\ bis = NoBis
    /\ exc = <<>>
    /\ log = <<>>
    /\ plotted = <<>>
    /\ ret = NoRet
    /\ InitIdleIMDS

Next ==
    \/ CheckMethod
    \/ CheckEntireSpace
    \/ Prepare
    \/ ForOrbital
    \/ Return
    \/ NewtonEval
    \/ NewtonConverge
    \/ NewtonFailNewton
    \/ NewtonFailFallback
    \/ BisectFa
    \/ BisectFb
    \/ BisectIter
    \/ BisectFail

Spec == Init /\ [][Next]_vars

InitIdleKernel ==
    /\ method = "fallback"
    /\ linearized = FALSE
    /\ imds = MolIMDS
    /\ orbs_arg = NoneArg
    /\ pc = "idle"
    /\ orbs = <<>>
    /\ gw_energies = NoTensor
    /\ i_p = 0
    /\ p = <<>>
    /\ debug = NoDebug
    /\ bis = NoBis
    /\ exc = <<>>
    /\ log = <<>>
    /\ plotted = <<>>
    /\ ret = NoRet

InitIMDS ==
    /\ ipc = "backup"
    /\ mo_occ \in [1..NMO -> Occupations]
    /\ space \in [1..NMO -> BOOLEAN]
    /\ has_exxdiv \in BOOLEAN
    /\ exxdiv \in (IF has_exxdiv THEN {"ewald", "None"} ELSE {"absent"})
    /\ backup = <<>>
    /\ env_old = "none"
    /\ mo_occ0 = mo_occ
    /\ exxdiv0 = exxdiv
    /\ iexc = <<>>
    /\ InitIdleKernel

NextIMDS ==
    \/ BackupOcc
    \/ MaskOcc
    \/ EnterEnv
    \/ GetVeff
    \/ GetJ
    \/ ExitEnv
    \/ RestoreOcc

SpecIMDS == InitIMDS /\ [][NextIMDS]_vars

\* ---------------------------------------------------------------- properties
BisectPCs == {"bisect_fa", "bisect_fb", "bisect_iter"}
SearchPCs == {"newton"} \cup BisectPCs
\* the arguments as the documentation of kernel() wants them
MethodOK == method \in {"newton", "bisect", "fallback"}
EntireSpaceOK == imds.entire_space.is_list /\ Len(imds.entire_space.v) = imds.orb_dims
ConfigOK == MethodOK /\ EntireSpaceOK

\* the evaluations newton made before it gave up: its two starting points and
\* one point for each iteration of its budget
NewtonHistory ==
    [x |-> SubSeq(debug.x, 1, MaxIter + 2), y |-> SubSeq(debug.y, 1, MaxIter + 2)]

\* the residual recorded in a history at the point x
YAt(h, x) == h.y[CHOOSE k \in 1..Len(h.x) : h.x[k] = x]

\* the residuals recorded at the two ends of a history's bracket do not have the
\* same strict sign
SignChange(h) == YAt(h, SeqMin(h.x)) * YAt(h, SeqMax(h.x)) <= 0

Warnings(k) == {j \in 1..Len(log) : log[j].slot = k}

\* C1: under method "fallback" the first evaluation of every orbital's search is
\* newton's, at imds.initial_guess(p); bisection runs only once newton has spent
\* its budget, at most one warning (one fallback) is made per orbital, and while
\* bisection runs its bracket is [min, max] of the omegas newton recorded, which
\* are the two bounds of the warning logged for that orbital.
C1_FallbackBracket ==
    method = "fallback" =>
        /\ \A k \in 1..Len(gw_energies.slots) : Cardinality(Warnings(k)) <= 1
        /\ (pc \in SearchPCs /\ debug.x # <<>>) => debug.x[1] = initial_guess(p)
        /\ pc = "newton" => Warnings(i_p) = {}
        /\ pc \in BisectPCs =>
              /\ Len(debug.x) >= MaxIter + 2
              /\ bis.a = SeqMin(NewtonHistory.x)
              /\ bis.b = SeqMax(NewtonHistory.x)
              /\ log # <<>>
              /\ log[Len(log)] = [slot |-> i_p, bounds |-> <<bis.a, bis.b>>]

\* bisection is running on a bracket narrower than the fixed interval
C1_Witness ==
    /\ method = "fallback"
    /\ pc = "bisect_iter"
    /\ bis.b < W
    /\ Len(log) = 1

\* the history in debug is the one of a search in which newton failed under
\* method "fallback": the search is still in bisection, or has just ended
FallbackSearch ==
    /\ method = "fallback"
    /\ log # <<>>
    /\ \/ pc \in BisectPCs \cup {"raised"} /\ log[Len(log)].slot = i_p
       \/ pc \in {"loop", "returned"} /\ log[Len(log)].slot = i_p - 1

C3_NewtonFailurePropagates ==
    (method = "newton" /\ pc \in {"raised", "returned"} /\ exc # <<>>
        /\ exc[1] = "RuntimeError:newton") =>
        /\ pc = "raised"
        /\ exc[Len(exc)] = "RuntimeError:newton"
        /\ Len(debug.x) = MaxIter + 2
        /\ ~ret.given

\* C4: a method outside the three names ends kernel() in ValueError, and (with
\* a valid method) an entire_space that is not a list of length orb_dims ends
\* it in RuntimeError, for every orbs and linearized, before a tensor or a
\* residual function exists.
C4_ConfigurationError ==
    /\ ~MethodOK =>
          /\ pc \in {"check_method", "raised"}
          /\ pc = "raised" => exc = <<"ValueError">>
    /\ (MethodOK /\ ~EntireSpaceOK) =>
          /\ pc \in {"check_method", "check_space", "raised"}
          /\ pc = "raised" => exc = <<"RuntimeError:entire_space">>
    /\ ~ConfigOK =>
          /\ gw_energies = NoTensor
          /\ debug = NoDebug
          /\ orbs = <<>>
          /\ ~ret.given

C4_Witness ==
    /\ pc = "raised"
    /\ exc = <<"ValueError">>
    /\ linearized
    /\ orbs_arg = ListArg(<<IntItem(0)>>)
    /\ ~EntireSpaceOK

\* what the caller supplied, read as the specification reads it: a list of
\* orbital indexes is one dimension
AllInts(l) == l # <<>> /\ \A d \in 1..Len(l) : l[d].t = "int"
SuppliedDims(arg) ==
    IF arg.kind = "list" /\ AllInts(arg.v)
    THEN <<SeqItem([d \in 1..Len(arg.v) |-> arg.v[d].n])>>
    ELSE arg.v
ExpectedOrbs(arg, im) ==
    SubSeq(im.entire_space.v, 1, im.orb_dims - Len(SuppliedDims(arg))) \o SuppliedDims(arg)

\* C5 (as claimed): when fewer than orb_dims dimensions are supplied, the
\* missing leading ones are the leading entries of imds.entire_space and the
\* tensor has one slot per index tuple of all orb_dims dimensions.
C5_MissingDimensions ==
    (ConfigOK /\ orbs_arg.kind # "none" /\ Len(SuppliedDims(orbs_arg)) < imds.orb_dims
        /\ pc \notin {"check_method", "check_space", "prepare"}) =>
        /\ orbs = ExpectedOrbs(orbs_arg, imds)
        /\ gw_energies.made = 1
        /\ Len(gw_energies.slots) = Size(Shape(ExpectedOrbs(orbs_arg, imds)))

\* C7 (as claimed, for the selections that are None or an array of orbital
\* indexes): with linearized=True and valid arguments, every call ends in
\* NotImplementedError, without a residual function and without a result.
C7_LinearizedRaises ==
    (linearized /\ ConfigOK /\ orbs_arg.kind \in {"none", "array"}
        /\ pc \in {"raised", "returned"}) =>
        /\ pc = "raised"
        /\ exc = <<"NotImplementedError">>
        /\ debug = NoDebug
        /\ ~ret.given

RootFailures == {"RuntimeError:newton", "ValueError:bisect", "RuntimeError:bisect"}

\* C8 (as claimed): when a root search ends kernel() with an error, every
\* (omega, residual) pair of that search has been plotted before the error
\* leaves (the warning carries two bounds only, the exception none).
C8_HistorySurfaced ==
    (pc = "raised" /\ exc # <<>> /\ exc[1] \in RootFailures) => plotted = Pairs(debug)

\* C9: a root search starts with a fresh LoggingFunction whose history is
\* empty; while it runs, a step leaves the history alone or appends exactly one
\* pair at its end; and every pair in it is (omega, residual of the orbital
\* being searched at omega).
C9_Step ==
    /\ (pc \notin SearchPCs /\ pc' \in SearchPCs) => (debug' = LoggingFunction /\ debug'.x = <<>>)
    /\ pc \in SearchPCs =>
          \/ debug' = debug
          \/ \E x \in Omega :
                /\ debug'.x = Append(debug.x, x)
                /\ debug'.y = Append(debug.y, quasiparticle_eq(p, x))
    /\ pc' \in SearchPCs =>
          /\ Len(debug'.x) = Len(debug'.y)
          /\ \A k \in 1..Len(debug'.x) : debug'.y[k] = quasiparticle_eq(p', debug'.x[k])
C9_FreshHistory == [][C9_Step]_vars

\* the second orbital's search is under way after the first one's has ended
C9_Witness ==
    /\ pc \in SearchPCs
    /\ i_p = 2
    /\ gw_energies.slots[1].w = 1
    /\ Len(debug.x) >= 3
    /\ orbs_arg = NoneArg

\* C10: the tensor is made at most once; no slot is ever assigned twice; the
\* slot assigned last holds a point evaluated for the orbital at its index;
\* a call with linearized=False that returns has made the tensor once, with
\* one slot per index tuple, each assigned exactly once, and returns it; a
\* call that ends in an error returns nothing.
C10_TensorWrittenOnce ==
    /\ gw_energies.made <= 1
    /\ \A k \in 1..Len(gw_energies.slots) : gw_energies.slots[k].w <= 1
    /\ (pc = "loop" /\ i_p > 1 /\ MethodOK) =>
          /\ gw_energies.slots[i_p - 1].w = 1
          /\ \E k \in 1..Len(debug.x) : debug.x[k] = gw_energies.slots[i_p - 1].v
          /\ p = SubSeq(OrbitalTuple(orbs, IndexSeq(Shape(orbs))[i_p - 1]), 1, imds.orb_dims)
    /\ (pc = "returned" /\ ~linearized) =>
          /\ gw_energies.made = 1
          /\ Len(gw_energies.slots) = Size(Shape(orbs))
          /\ \A k \in 1..Len(gw_energies.slots) : gw_energies.slots[k].w = 1
          /\ ret = [given |-> TRUE, value |-> gw_energies.slots]
    /\ pc = "raised" => ~ret.given

\* a call for the same orbital twice has returned its two slots
C10_Witness ==
    /\ pc = "returned"
    /\ ~linearized
    /\ orbs_arg = ArrayArg(<<1, 1>>)
    /\ Len(ret.value) = 2

\* C6 (as claimed): when IMDS.__init__ is left, normally or by an exception
\* of get_veff() or get_j(), mo_occ and exxdiv of the mean-field object are
\* what they were before.
C6_MeanFieldRestored ==
    ipc \in {"done", "raised"} => (mo_occ = mo_occ0 /\ exxdiv = exxdiv0)

====
